---- MODULE Spec2Model ----
(***************************************************************************)
(* A model of the streaming answer pipeline of mi-gpt:                     *)
(*   - OpenAIClient (src/unnamed/part_000): the abort registry             *)
(*     _abortCallbacks, cancel, chat and chatStream;                        *)
(*   - AISpeaker (src/src/services/speaker/ai.ts): the command list, the   *)
(*     keep-alive switch and askAIForAnswer with its six steps;            *)
(*   - MyBot (same file): ask and chatWithStreamResponse.                  *)
(* The Speaker base class (message loop, checkIfHasNewMsg, response,       *)
(* addCommand, status) and StreamResponse are not part of the sources at   *)
(* hand; they are modelled from spec.md (sections 4.2, 4.3, 4.5, 5).       *)
(*                                                                         *)
(* Three specifications share the variables:                               *)
(*   Spec          the conversation: utterances, pipeline runs, streaming  *)
(*                 attempts, the registry and the stream buffers;          *)
(*   SpecRouter    the command list and its dispatch over all short texts; *)
(*   SpecRegistry  OpenAIClient.chat / cancel over caller-chosen ids.      *)
(***************************************************************************)
EXTENDS Integers, Sequences, FiniteSets, TLC

\* ------------------------------------------------------------------ bounds
MaxMsgs == 3      \* utterances received in one behaviour of Spec
MaxRuns == 2      \* runs of askAIForAnswer started in one behaviour of Spec
MaxChunks == 2    \* chunks the gateway delivers per streaming attempt
MaxTextLen == 3   \* symbols per utterance in SpecRouter
MaxExtra == 2     \* commands added after startup in SpecRouter
MaxCalls == 3     \* chat() calls made in SpecRegistry
MaxIds == 2       \* distinct caller-chosen request ids in SpecRegistry

VARIABLES
    streamResponse,  \* Speaker.streamResponse (config), fixed at construction
    status,          \* Speaker.status: "running" | "stopped"
    keepAlive,       \* Speaker.keepAlive
    msgSeq,          \* tail position of the incoming-message sequence
    run,             \* run[r]: the r-th run of askAIForAnswer
    req,             \* req[r]: the chatStream call of run r (request id r)
    buf,             \* buf[r]: the StreamResponse of request r
    effects,         \* effects[r]: side effects run r has produced so far
    history,         \* conversation history (manager.onMessage writes)
    unhandled,       \* request ids whose chatStream promise rejected unhandled
    abortCallbacks,  \* OpenAIClient._abortCallbacks: set of [id, fn]
    abortCount,      \* abortCount[fn]: times the abort function fn was invoked
    regCommands,     \* Speaker._commands: caller-registered commands
    handled,         \* the last utterance dispatched and the handler it got
    calls,           \* chat() calls in flight (SpecRegistry)
    nCalls,          \* chat() calls made so far (SpecRegistry)
    last             \* the last OpenAIClient operation (SpecRegistry)

vars == <<streamResponse, status, keepAlive, msgSeq, run, req, buf, effects, history, unhandled,
          abortCallbacks, abortCount, regCommands, handled, calls, nCalls, last>>

pipelineVars == <<status, msgSeq, run, req, buf, effects, history, unhandled>>
registryVars == <<abortCallbacks, abortCount>>
routerVars == <<regCommands, handled>>
clientVars == <<calls, nCalls, last>>

Min(S) == CHOOSE x \in S : \A y \in S : x <= y

\* ------------------------------------------------- utterances and keywords
\* An utterance text is a sequence of symbols.  Each symbol stands for one
\* literal of the default configuration:
\*   "W" a wake keyword (打开)      "X" an exit keyword (关闭)
\*   "U" the character 你, which is a call keyword too
\*   "I" the character 我           "S" the character 是 (matches nothing alone)
\*   "V" a voice-switch prefix (音色切换到)
Symbols == {"W", "X", "U", "I", "S", "V"}

wakeUpKeywords == {<<"W">>}
exitKeywords == {<<"X">>}
callAIKeywords == {<<"U">>}
switchSpeakerKeywords == {<<"V">>}

\* config.audioBeep of the device that is modelled
audioBeep == FALSE

\* String.prototype.startsWith
StartsWith(text, kw) ==
    /\ Len(text) >= Len(kw)
    /\ SubSeq(text, 1, Len(kw)) = kw

\* /.*你是(?<name>[^你]*)你(?<profile>.*)/ : some "你是" is followed, later on,
\* by another "你" (the first one after it ends the name).
MatchBotProfile(text) ==
    \E i \in 1..Len(text) :
        /\ i + 2 <= Len(text)
        /\ text[i] = "U" /\ text[i + 1] = "S"
        /\ \E j \in (i + 2)..Len(text) : text[j] = "U"

\* /.*我是(?<name>[^我]*)我(?<profile>.*)/
MatchMasterProfile(text) ==
    \E i \in 1..Len(text) :
        /\ i + 2 <= Len(text)
        /\ text[i] = "I" /\ text[i + 1] = "S"
        /\ \E j \in (i + 2)..Len(text) : text[j] = "I"

\* Commands a caller may add after startup: each matches on a prefix that a
\* built-in command or the fallback matches too.
ExtraCommands == {"onWake", "onCall"}

\* A plausible slip: the fallback matches on a call keyword only.
MatchFallbackCallOnly(cmd, text, ka) ==
    CASE cmd = "wake" ->
            ~ka /\ \E e \in wakeUpKeywords : StartsWith(text, e)
      [] cmd = "exit" ->
            ka /\ \E e \in exitKeywords : StartsWith(text, e)
      [] cmd = "switch" ->
            \E e \in switchSpeakerKeywords : StartsWith(text, e)
      [] cmd = "botProfile" -> MatchBotProfile(text)
      [] cmd = "masterProfile" -> MatchMasterProfile(text)
      [] cmd = "onWake" -> StartsWith(text, <<"W">>)
      [] cmd = "onCall" -> StartsWith(text, <<"U">>)
      [] cmd = "ai" -> \E e \in callAIKeywords : StartsWith(text, e)
      [] OTHER -> FALSE

\* The match predicate of each command, for the session flag ka.
Match(cmd, text, ka) ==
    CASE cmd = "wake" ->
            ~ka /\ \E e \in wakeUpKeywords : StartsWith(text, e)
      [] cmd = "exit" ->
            ka /\ \E e \in exitKeywords : StartsWith(text, e)
      [] cmd = "switch" ->
            \E e \in switchSpeakerKeywords : StartsWith(text, e)
      [] cmd = "botProfile" -> MatchBotProfile(text)
      [] cmd = "masterProfile" -> MatchMasterProfile(text)
      [] cmd = "onWake" -> StartsWith(text, <<"W">>)
      [] cmd = "onCall" -> StartsWith(text, <<"U">>)
      [] cmd = "ai" ->
            ka \/ \E e \in callAIKeywords : StartsWith(text, e)
      [] OTHER -> FALSE

\* A plausible slip: the registered commands spread after the fallback.
commandsFallbackFirst == <<"wake", "exit", "switch", "ai">> \o regCommands

\* get commands(): the built-ins, then ...this._commands, then the fallback
commands == <<"wake", "exit", "switch">> \o regCommands \o <<"ai">>

\* The message loop's dispatch: the first command whose predicate matches
\* (0: none).
FirstMatch(text, ka) ==
    LET hits == {i \in 1..Len(commands) : Match(commands[i], text, ka)}
    IN  IF hits = {} THEN 0 ELSE Min(hits)

\* MyBot's constructor registers the two persona commands.
StartupCommands == <<"botProfile", "masterProfile">>

\* enterKeepAlive: refused when streamResponse is off
AfterEnterKeepAlive(ka) == IF streamResponse THEN TRUE ELSE ka

\* A plausible slip: exitKeepAlive speaks its phrase and leaves the flag.
ExitKeepsAlive(ka) == ka

\* exitKeepAlive
AfterExitKeepAlive(ka) == FALSE

\* The session flag after the handler of command cmd has run.
KeepAliveAfter(cmd, ka) ==
    CASE cmd = "wake" -> AfterEnterKeepAlive(ka)
      [] cmd = "exit" -> AfterExitKeepAlive(ka)
      [] OTHER -> ka

\* ---------------------------------------------------------- abort registry
\* An abort function is a token: that of the chatStream call of request r,
\* or that of the n-th chat() call (each call makes a closure of its own).
AllFns == ({"stream"} \X (1..MaxRuns)) \cup ({"chat"} \X (1..MaxCalls))

HasCallback(cbs, id) == \E e \in cbs : e.id = id

\* this._abortCallbacks[requestId] = fn
Registered(cbs, id, fn) ==
    {e \in cbs : e.id # id} \cup {[id |-> id, fn |-> fn]}

\* delete this._abortCallbacks[requestId]
Deleted(cbs, id) == {e \in cbs : e.id # id}

\* A plausible slip: cancel invokes the function and forgets the delete.
CancelKeepsEntry(cbs, id) == cbs

\* cancel(requestId), the registry it leaves
CancelCallbacks(cbs, id) ==
    IF HasCallback(cbs, id) THEN Deleted(cbs, id) ELSE cbs

\* cancel(requestId), the invocations it makes
CancelCounts(cbs, cnt, id) ==
    [f \in DOMAIN cnt |->
        IF [id |-> id, fn |-> f] \in cbs THEN cnt[f] + 1 ELSE cnt[f]]

\* ------------------------------------------------------------------- Init
NoRun == [pc |-> "none", step |-> 0, snap |-> 0, at |-> 0, answer |-> "unset",
          res |-> "unset", invoked |-> <<>>]
NoReq == [pc |-> "none", content |-> <<>>, answer |-> <<>>]
NoBuf == [status |-> "none", text |-> <<>>, final |-> <<>>]
NotHandled == [ka |-> FALSE, head |-> "", matched |-> {}, reg |-> <<>>,
               pos |-> 0, cmd |-> "none"]
NoOp == [op |-> "none", id |-> 0]

Init ==
    /\ streamResponse \in BOOLEAN
    /\ status = "running"
    /\ keepAlive = FALSE
    /\ msgSeq = 0
    /\ run = [r \in 1..MaxRuns |-> NoRun]
    /\ req = [r \in 1..MaxRuns |-> NoReq]
    /\ buf = [r \in 1..MaxRuns |-> NoBuf]
    /\ effects = [r \in 1..MaxRuns |-> {}]
    /\ history = {}
    /\ unhandled = {}
    /\ abortCallbacks = {}
    /\ abortCount = [f \in AllFns |-> 0]
    /\ regCommands = StartupCommands
    /\ handled = NotHandled
    /\ calls = {}
    /\ nCalls = 0
    /\ last = NoOp

\* ------------------------------------------------------------ SpecRegistry
\* chat(options) up to its await: with a requestId (id # 0) the abort
\* function of a fresh AbortController is registered before the call.
ChatBegin(id) ==
    /\ nCalls < MaxCalls
    /\ nCalls' = nCalls + 1
    /\ calls' = calls \cup {[n |-> nCalls + 1, id |-> id]}
    /\ abortCallbacks' =
          IF id # 0
          THEN Registered(abortCallbacks, id, <<"chat", nCalls + 1>>)
          ELSE abortCallbacks
    /\ last' = [op |-> "chat", id |-> id]
    /\ UNCHANGED <<streamResponse, abortCount, keepAlive, pipelineVars, routerVars>>

\* chat(options) after its await: the entry of the id is deleted, whether the
\* completion arrived, failed or was aborted.
ChatReturn(c) ==
    /\ c \in calls
    /\ calls' = calls \ {c}
    /\ abortCallbacks' =
          IF c.id # 0 THEN Deleted(abortCallbacks, c.id) ELSE abortCallbacks
    /\ last' = [op |-> "chatReturn", id |-> c.id]
    /\ UNCHANGED <<streamResponse, abortCount, nCalls, keepAlive, pipelineVars, routerVars>>

\* cancel(requestId), called by any component
CancelRequest(id) ==
    /\ abortCallbacks' = CancelCallbacks(abortCallbacks, id)
    /\ abortCount' = CancelCounts(abortCallbacks, abortCount, id)
    /\ last' = [op |-> "cancel", id |-> id]
    /\ UNCHANGED <<streamResponse, calls, nCalls, keepAlive, pipelineVars, routerVars>>

NextRegistry ==
    \/ \E id \in 0..MaxIds : ChatBegin(id)
    \/ \E c \in calls : ChatReturn(c)
    \/ \E id \in 1..MaxIds : CancelRequest(id)

SpecRegistry == Init /\ [][NextRegistry]_vars

\* -------------------------------------------------------------- SpecRouter
Texts == UNION {[1..n -> Symbols] : n \in 1..MaxTextLen}

\* addCommand(cmd): appended to _commands
AddCommand(cmd) ==
    /\ Len(regCommands) < Len(StartupCommands) + MaxExtra
    /\ regCommands' = Append(regCommands, cmd)
    /\ UNCHANGED <<streamResponse, handled, keepAlive, pipelineVars, registryVars, clientVars>>

\* Every command the list can hold.
AllCommands ==
    {"wake", "exit", "switch", "botProfile", "masterProfile", "ai"}
        \cup ExtraCommands

\* One utterance through the command list; the handlers other than wake and
\* exit leave the session flag alone.  handled keeps what the dispatch saw:
\* the session flag, the first symbol of the text, the commands whose
\* predicate holds of the text, the commands registered at that time, and
\* the position and name of the handler run.
Dispatch(text) ==
    LET i == FirstMatch(text, keepAlive)
        cmd == IF i = 0 THEN "none" ELSE commands[i]
    IN  /\ handled' = [ka |-> keepAlive, head |-> text[1],
                       matched |-> {c \in AllCommands : Match(c, text, keepAlive)},
                       reg |-> regCommands,
                       pos |-> i, cmd |-> cmd]
        /\ keepAlive' = KeepAliveAfter(cmd, keepAlive)
        /\ UNCHANGED <<streamResponse, regCommands, pipelineVars, registryVars, clientVars>>

NextRouter ==
    \/ \E cmd \in ExtraCommands : AddCommand(cmd)
    \/ \E text \in Texts : Dispatch(text)

SpecRouter == Init /\ [][NextRouter]_vars

\* ------------------------------------------------------------ stream buffer
\* StreamResponse, after spec.md 4.2.
Terminal == {"finished", "canceled", "timedOut"}

\* A plausible slip: addChunk without the terminal-state check.
StreamAddAlways(b, text) ==
    [b EXCEPT !.status = "streaming", !.text = Append(@, text)]

\* addChunk: appended while not terminal, dropped afterwards
StreamAddResponse(b, text) ==
    IF b.status \in Terminal THEN b
    ELSE [b EXCEPT !.status = "streaming", !.text = Append(@, text)]

\* A plausible slip: finish without the terminal-state check.
StreamFinishAlways(b, full) ==
    [b EXCEPT !.status = "finished", !.final = full]

\* finish(fullText): finished unless already terminal
StreamFinish(b, full) ==
    IF b.status \in Terminal THEN b
    ELSE [b EXCEPT !.status = "finished", !.final = full]

\* cancel(): canceled unless already finished
StreamCancel(b) ==
    IF b.status = "finished" THEN b ELSE [b EXCEPT !.status = "canceled"]

\* ---------------------------------------------------------- answer pipeline
Runs == 1..MaxRuns

\* Utterances of the conversation: a wake keyword, an exit keyword, a call
\* keyword and a text that matches no command.
Utterances == {<<"W">>, <<"X">>, <<"U">>, <<"S">>}

\* checkIfHasNewMsg(msg).hasNewMsg, after spec.md 4.3: an utterance was
\* appended after the one the run answers.
hasNewMsg(r) == msgSeq > run[r].snap

\* A plausible slip: the check after a step looks at the status only.
ShouldAbortStatusOnly(r) == status # "running"

\* Another one: the check after a step is left out.
ShouldAbortNever(r) == FALSE

\* And one more: the check looks at the newer utterance only.
ShouldAbortNewMsgOnly(r) == hasNewMsg(r)

\* askAIForAnswer, the check after each step
ShouldAbort(r) == hasNewMsg(r) \/ status # "running"

\* A plausible slip: step 6 wakes the device up whatever the session flag.
StepAwaitsWakeAlways(k, d, ka) ==
    CASE k = 1 -> TRUE
      [] k = 2 -> TRUE
      [] k = 3 -> d.answer # "unset"
      [] k = 4 -> /\ d.answer # "unset"
                  /\ d.res \in {"unset", "null"}
                  /\ ~audioBeep
                  /\ streamResponse
      [] k = 5 -> d.res = "error"
      [] k = 6 -> TRUE
      [] OTHER -> FALSE

\* Another one: step 4 does not look at the playback outcome.
StepAwaitsDoneAnyOutcome(k, d, ka) ==
    CASE k = 1 -> TRUE
      [] k = 2 -> TRUE
      [] k = 3 -> d.answer # "unset"
      [] k = 4 -> /\ d.answer # "unset"
                  /\ ~audioBeep
                  /\ streamResponse
      [] k = 5 -> d.res = "error"
      [] k = 6 -> ka
      [] OTHER -> FALSE

\* Whether step k reaches an await with the bag d (the steps whose condition
\* fails return at once).  The phrase lists are the non-empty defaults.
StepAwaits(k, d, ka) ==
    CASE k = 1 -> TRUE
      [] k = 2 -> TRUE
      [] k = 3 -> d.answer # "unset"
      [] k = 4 -> /\ d.answer # "unset"
                  /\ d.res \in {"unset", "null"}
                  /\ ~audioBeep
                  /\ streamResponse
      [] k = 5 -> d.res = "error"
      [] k = 6 -> ka
      [] OTHER -> FALSE

\* What the user observes when step k reaches its await.
EffectOf(k) ==
    CASE k = 1 -> "thinking"
      [] k = 2 -> "ask"
      [] k = 3 -> "playback"
      [] k = 4 -> "done"
      [] k = 5 -> "error"
      [] OTHER -> "wake"

InStep(rr) == rr.pc \in {"step", "ask_get", "ask_save"}

\* askAIForAnswer from the return of the step in progress, whose result is
\* the bag d, to the next await: the check, the merge of the bag, and every
\* following step up to the first one that awaits (or the end of the loop).
RunAfterStep(r, d) ==
    LET rr == run[r]
        nexts == {j \in (rr.step + 1)..6 : StepAwaits(j, d, keepAlive)}
        j == IF nexts = {} THEN 7 ELSE Min(nexts)
        upto == IF j = 7 THEN 6 ELSE j
    IN  IF ShouldAbort(r)
        THEN [rr EXCEPT !.pc = "aborted"]
        ELSE [rr EXCEPT
                !.pc = IF j = 7 THEN "done"
                       ELSE IF j = 2 THEN "ask_get" ELSE "step",
                !.step = upto,
                !.answer = d.answer,
                !.res = d.res,
                !.invoked = @ \o [i \in 1..(upto - rr.step) |-> rr.step + i],
                !.at = msgSeq]

\* The effect of the step the run has just begun, if it began one.
BegunEffect(old, new) ==
    IF InStep(new) /\ new.step > old.step THEN {EffectOf(new.step)} ELSE {}

Bag(rr) == [answer |-> rr.answer, res |-> rr.res]

\* askAIForAnswer(msg) up to the await of step 1: the snapshot of the guard
\* and the "thinking" phrase.
RunStarted(seq) ==
    [NoRun EXCEPT !.pc = "step", !.step = 1, !.snap = seq, !.at = seq,
                  !.invoked = <<1>>]

\* The message loop takes one utterance: it is appended to the message
\* sequence and given to the first command that matches; the fallback starts
\* a run of askAIForAnswer (the next free slot) without waiting for the runs
\* in progress.
OnMessage(text) ==
    LET seq == msgSeq + 1
        i == FirstMatch(text, keepAlive)
        cmd == IF i = 0 THEN "none" ELSE commands[i]
        slot == Cardinality({r \in Runs : run[r].pc # "none"}) + 1
    IN  /\ status = "running"
        /\ msgSeq < MaxMsgs
        /\ cmd = "ai" => slot <= MaxRuns
        /\ msgSeq' = seq
        /\ keepAlive' = KeepAliveAfter(cmd, keepAlive)
        /\ run' = IF cmd = "ai"
                  THEN [run EXCEPT ![slot] = RunStarted(seq)]
                  ELSE run
        /\ effects' = IF cmd = "ai"
                      THEN [effects EXCEPT ![slot] = {"thinking"}]
                      ELSE effects
        /\ UNCHANGED <<streamResponse, status, req, buf, history, unhandled, registryVars,
                       routerVars, clientVars>>

\* stop()
Stop ==
    /\ status = "running"
    /\ status' = "stopped"
    /\ UNCHANGED <<streamResponse, keepAlive, msgSeq, run, req, buf, effects, history,
                   unhandled, registryVars, routerVars, clientVars>>

\* The await of step 1, 4, 5 or 6 (a phrase spoken, the device woken up)
\* completes.
ResponseReturned(r) ==
    /\ run[r].pc = "step"
    /\ run[r].step \in {1, 4, 5, 6}
    /\ LET new == RunAfterStep(r, Bag(run[r]))
       IN  /\ run' = [run EXCEPT ![r] = new]
           /\ effects' = [effects EXCEPT ![r] = @ \cup BegunEffect(run[r], new)]
    /\ UNCHANGED <<streamResponse, status, keepAlive, msgSeq, req, buf, history, unhandled,
                   registryVars, routerVars, clientVars>>

\* Step 2 with nothing to ask: askAI is not set (this.askAI?.(msg) is
\* undefined) and the bag gets no answer.
AskNoAnswer(r) ==
    /\ run[r].pc = "ask_get"
    /\ LET new == RunAfterStep(r, [answer |-> "unset", res |-> run[r].res])
       IN  /\ run' = [run EXCEPT ![r] = new]
           /\ effects' = [effects EXCEPT ![r] = @ \cup BegunEffect(run[r], new)]
    /\ UNCHANGED <<streamResponse, status, keepAlive, msgSeq, req, buf, history, unhandled,
                   registryVars, routerVars, clientVars>>

\* ask(msg): manager.get() finds no memory and ask returns {}, which step 2
\* records as the answer.
AskNoMemory(r) ==
    /\ run[r].pc = "ask_get"
    /\ LET new == RunAfterStep(r, [answer |-> "empty", res |-> run[r].res])
       IN  /\ run' = [run EXCEPT ![r] = new]
           /\ effects' = [effects EXCEPT ![r] = @ \cup BegunEffect(run[r], new)]
    /\ UNCHANGED <<streamResponse, status, keepAlive, msgSeq, req, buf, history, unhandled,
                   registryVars, routerVars, clientVars>>

\* ask(msg): the reads of the conversation and the memories are done and
\* the user's message is written to the history.
AskContextLoaded(r) ==
    /\ run[r].pc = "ask_get"
    /\ run' = [run EXCEPT ![r].pc = "ask_save"]
    /\ history' = history \cup {[who |-> "user", r |-> r, text |-> <<>>]}
    /\ effects' = [effects EXCEPT ![r] = @ \cup {"history_user"}]
    /\ UNCHANGED <<streamResponse, status, keepAlive, msgSeq, req, buf, unhandled,
                   registryVars, routerVars, clientVars>>

\* ask(msg): one of the awaited calls of the persistence layer rejects; step 2
\* throws and so does askAIForAnswer, which has no handler around its steps.
AskThrows(r) ==
    /\ run[r].pc \in {"ask_get", "ask_save"}
    /\ run' = [run EXCEPT ![r].pc = "threw"]
    /\ UNCHANGED <<streamResponse, status, keepAlive, msgSeq, req, buf, effects, history,
                   unhandled, registryVars, routerVars, clientVars>>

\* ask(msg): the write is done; chatWithStreamResponse mints the request id,
\* creates the stream buffer and calls chatStream, which runs up to its await
\* of the gateway; ask returns {stream} and step 2 records it.
AskSaved(r) ==
    /\ run[r].pc = "ask_save"
    /\ req' = [req EXCEPT ![r].pc = "creating"]
    /\ buf' = [buf EXCEPT ![r].status = "pending"]
    /\ LET new == RunAfterStep(r, [answer |-> "stream", res |-> run[r].res])
       IN  /\ run' = [run EXCEPT ![r] = new]
           /\ effects' = [effects EXCEPT
                            ![r] = @ \cup {"request"} \cup BegunEffect(run[r], new)]
    /\ UNCHANGED <<streamResponse, status, keepAlive, msgSeq, history, unhandled,
                   registryVars, routerVars, clientVars>>

\* The playback of step 3 ends with an outcome.  A stream is played until its
\* buffer is terminal, or until the run is superseded or the device stopped.
PlaybackReturned(r, res) ==
    /\ run[r].pc = "step"
    /\ run[r].step = 3
    /\ \/ run[r].answer = "empty"
       \/ buf[r].status \in Terminal
       \/ hasNewMsg(r)
       \/ status # "running"
    /\ LET new == RunAfterStep(r, [answer |-> run[r].answer, res |-> res])
       IN  /\ run' = [run EXCEPT ![r] = new]
           /\ effects' = [effects EXCEPT ![r] = @ \cup BegunEffect(run[r], new)]
    /\ UNCHANGED <<streamResponse, status, keepAlive, msgSeq, req, buf, history, unhandled,
                   registryVars, routerVars, clientVars>>

\* The playback cancels the stream it plays when a newer utterance has
\* arrived or the device is stopped.
PlaybackCancel(r) ==
    /\ run[r].pc = "step"
    /\ run[r].step = 3
    /\ run[r].answer = "stream"
    /\ hasNewMsg(r) \/ status # "running"
    /\ StreamCancel(buf[r]) # buf[r]
    /\ buf' = [buf EXCEPT ![r] = StreamCancel(@)]
    /\ UNCHANGED <<streamResponse, status, keepAlive, msgSeq, run, req, effects, history,
                   unhandled, registryVars, routerVars, clientVars>>

\* The buffer's first-chunk timer fires.
BufferTimeout(r) ==
    /\ buf[r].status = "pending"
    /\ buf' = [buf EXCEPT ![r].status = "timedOut"]
    /\ UNCHANGED <<streamResponse, status, keepAlive, msgSeq, run, req, effects, history,
                   unhandled, registryVars, routerVars, clientVars>>

\* ------------------------------------------------------------- chatStream
\* chatWithStreamResponse's .then with no answer: finish, then cancel
ThenNoAnswer(b) == StreamCancel(StreamFinish(b, <<>>))

\* create() resolves with a stream: the abort function is registered.
CreateResolved(r) ==
    /\ req[r].pc = "creating"
    /\ req' = [req EXCEPT ![r].pc = "iterating"]
    /\ abortCallbacks' = Registered(abortCallbacks, r, <<"stream", r>>)
    /\ effects' = [effects EXCEPT ![r] = @ \cup {"registry"}]
    /\ UNCHANGED <<streamResponse, status, keepAlive, msgSeq, run, buf, history, unhandled,
                   abortCount, routerVars, clientVars>>

\* create() rejects: caught, chatStream returns undefined.
CreateFailed(r) ==
    /\ req[r].pc = "creating"
    /\ req' = [req EXCEPT ![r].pc = "resolved"]
    /\ buf' = [buf EXCEPT ![r] = ThenNoAnswer(@)]
    /\ UNCHANGED <<streamResponse, status, keepAlive, msgSeq, run, effects, history, unhandled,
                   registryVars, routerVars, clientVars>>

\* The loop body for one chunk.  The k-th chunk with text carries the text
\* k; text 0 is a chunk with an empty delta, which the loop skips.
StreamChunk(r, text) ==
    /\ req[r].pc = "iterating"
    /\ text # 0 => Len(req[r].content) < MaxChunks
    /\ IF ~HasCallback(abortCallbacks, r)
       THEN \* aborted: content = "", break, return undefined
            /\ req' = [req EXCEPT ![r].pc = "resolved", ![r].content = <<>>]
            /\ buf' = [buf EXCEPT ![r] = ThenNoAnswer(@)]
            /\ abortCallbacks' = Deleted(abortCallbacks, r)
            /\ UNCHANGED abortCount
       ELSE IF text # 0
       THEN /\ req' = [req EXCEPT ![r].content = Append(@, text)]
            /\ IF buf[r].status = "canceled"
               THEN \* onStream: openai.cancel(requestId)
                    /\ abortCallbacks' = CancelCallbacks(abortCallbacks, r)
                    /\ abortCount' = CancelCounts(abortCallbacks, abortCount, r)
                    /\ UNCHANGED buf
               ELSE \* onStream: stream.addResponse(text)
                    /\ buf' = [buf EXCEPT ![r] = StreamAddResponse(@, text)]
                    /\ UNCHANGED registryVars
       ELSE UNCHANGED <<req, buf, registryVars>>
    /\ UNCHANGED <<streamResponse, status, keepAlive, msgSeq, run, effects, history, unhandled,
                   routerVars, clientVars>>

\* The stream ends: the entry is deleted, chatStream returns the content (or
\* undefined when it is empty) and the .then of chatWithStreamResponse runs.
StreamEnd(r) ==
    /\ req[r].pc = "iterating"
    /\ req' = [req EXCEPT ![r].pc = "resolved", ![r].answer = req[r].content,
                          ![r].content = <<>>]
    /\ abortCallbacks' = Deleted(abortCallbacks, r)
    /\ IF req[r].content # <<>>
       THEN /\ buf' = [buf EXCEPT ![r] = StreamFinish(@, req[r].content)]
            /\ history' = history \cup
                  {[who |-> "bot", r |-> r, text |-> req[r].content]}
            /\ effects' = [effects EXCEPT ![r] = @ \cup {"history_bot"}]
       ELSE /\ buf' = [buf EXCEPT ![r] = ThenNoAnswer(@)]
            /\ UNCHANGED <<history, effects>>
    /\ UNCHANGED <<streamResponse, status, keepAlive, msgSeq, run, unhandled, abortCount,
                   routerVars, clientVars>>

\* The stream fails while it is iterated: the for-await throws, chatStream
\* rejects, and the promise chain of chatWithStreamResponse has no catch.
StreamError(r) ==
    /\ req[r].pc = "iterating"
    /\ abortCount[<<"stream", r>>] = 0
    /\ req' = [req EXCEPT ![r].pc = "rejected", ![r].content = <<>>]
    /\ unhandled' = unhandled \cup {r}
    /\ UNCHANGED <<streamResponse, status, keepAlive, msgSeq, run, buf, effects, history,
                   registryVars, routerVars, clientVars>>

Next ==
    \/ \E text \in Utterances : OnMessage(text)
    \/ Stop
    \/ \E r \in Runs :
        \/ ResponseReturned(r)
        \/ AskNoAnswer(r)
        \/ AskNoMemory(r)
        \/ AskContextLoaded(r)
        \/ AskThrows(r)
        \/ AskSaved(r)
        \/ \E res \in {"null", "error", "other"} : PlaybackReturned(r, res)
        \/ PlaybackCancel(r)
        \/ BufferTimeout(r)
        \/ CreateResolved(r)
        \/ CreateFailed(r)
        \/ \E text \in {0, Len(req[r].content) + 1} : StreamChunk(r, text)
        \/ StreamEnd(r)
        \/ StreamError(r)

Spec == Init /\ [][Next]_vars

\* ================================================================== claims
Ended(rr) == rr.pc \in {"done", "aborted", "threw"}

AllSteps == <<1, 2, 3, 4, 5, 6>>

\* The effects a pipeline step produces when it begins.
StepEffects == {"thinking", "ask", "playback", "done", "error", "wake"}

\* C1: once a newer utterance has arrived while step k of a run is in
\* progress, the run invokes no further step (its list of invoked steps never
\* grows again), and the steps invoked so far are exactly 1..k, each once.
C1_SupersededRunStartsNoStep ==
    [][\A r \in Runs :
          (run[r].pc # "none" /\ hasNewMsg(r)) =>
              /\ run'[r].invoked = run[r].invoked
              /\ run[r].invoked = SubSeq(AllSteps, 1, run[r].step)]_vars

\* C1 witness: a run in keep-alive mode was superseded while its last step
\* (the wake-up) was in progress, and has returned at the check after it.
C1_Witness ==
    \E r \in Runs :
        /\ run[r].pc = "aborted"
        /\ run[r].step = 6
        /\ hasNewMsg(r)
        /\ status = "running"

\* C2 (as claimed): once the run that minted a request id has returned, the
\* registry holds no entry for that id.
C2_NoEntryAfterRunReturned ==
    \A r \in Runs :
        (Ended(run[r]) /\ req[r].pc # "none") => ~HasCallback(abortCallbacks, r)

\* C3: a step of cancel(id) invokes each function registered for id once more
\* and leaves id absent and every other entry and count as it was; with
\* nothing registered for id it changes nothing.  After any step no function
\* has been invoked twice and no id has two entries.
C3_CancelContract ==
    [][/\ \A id \in 1..MaxIds :
            last' = [op |-> "cancel", id |-> id] =>
                IF HasCallback(abortCallbacks, id)
                THEN /\ ~HasCallback(abortCallbacks', id)
                     /\ \A e \in abortCallbacks :
                            e.id # id => e \in abortCallbacks'
                     /\ abortCallbacks' \subseteq abortCallbacks
                     /\ \A f \in AllFns :
                            abortCount'[f] =
                                IF [id |-> id, fn |-> f] \in abortCallbacks
                                THEN abortCount[f] + 1 ELSE abortCount[f]
                ELSE UNCHANGED <<abortCallbacks, abortCount>>
       /\ \A f \in AllFns : abortCount'[f] <= 1
       /\ \A e1, e2 \in abortCallbacks' : e1.id = e2.id => e1 = e2]_vars

\* C3 witness: cancel has just run on an id whose entry had been overwritten
\* by a second chat() call: the second function was invoked, the first never.
C3_Witness ==
    /\ last.op = "cancel"
    /\ ~HasCallback(abortCallbacks, last.id)
    /\ abortCount[<<"chat", 2>>] = 1
    /\ abortCount[<<"chat", 1>>] = 0
    /\ \E c1, c2 \in calls : c1.n = 1 /\ c2.n = 2 /\ c1.id = c2.id

\* C4 (as claimed): no two runs are in progress at the same time.
C4_AtMostOneActiveRun ==
    Cardinality({r \in Runs : InStep(run[r])}) <= 1

\* C4 (amended): at most one run in progress has begun its current step since
\* the latest utterance arrived; every other run in progress is superseded
\* and is only finishing the step it was in.
C4_AtMostOneCurrentRun ==
    /\ Cardinality({r \in Runs : InStep(run[r]) /\ run[r].at = msgSeq}) <= 1
    /\ \A r \in Runs : (InStep(run[r]) /\ run[r].at # msgSeq) => hasNewMsg(r)

\* C4 witness: an older run is still in its playback step while the run of
\* the utterance that superseded it is in progress too.
C4_Witness ==
    \E r1, r2 \in Runs :
        /\ r1 # r2
        /\ InStep(run[r1]) /\ run[r1].step = 3
        /\ InStep(run[r2])
        /\ run[r1].snap < run[r2].snap

\* C5 (as claimed): once a newer utterance has arrived, the stale run
\* produces no further effect of any kind.
C5_NoEffectOnceSuperseded ==
    [][\A r \in Runs :
          (run[r].pc # "none" /\ hasNewMsg(r)) => effects'[r] = effects[r]]_vars

\* C5 (amended): once a newer utterance has arrived, the stale run begins no
\* further pipeline step: no phrase, no playback, no wake-up.  (What its
\* step 2 and its generation request still do is left open.)
C5_NoStepEffectOnceSuperseded ==
    [][\A r \in Runs :
          (run[r].pc # "none" /\ hasNewMsg(r)) =>
              (effects'[r] \ effects[r]) \cap StepEffects = {}]_vars

\* C5 witness: a run superseded during step 2 returned at the check after it,
\* without playback, although its request was issued and its reply was
\* written to the history.
C5_Witness ==
    \E r \in Runs :
        /\ run[r].pc = "aborted"
        /\ run[r].step = 2
        /\ hasNewMsg(r)
        /\ status = "running"
        /\ {"request", "registry", "history_bot"} \subseteq effects[r]
        /\ "playback" \notin effects[r]

\* C6 (as claimed): while the gateway call of a request is in flight, the
\* registry holds an entry for its id.
C6_EntryWhileInFlight ==
    \A r \in Runs :
        req[r].pc \in {"creating", "iterating"} => HasCallback(abortCallbacks, r)

\* C7 (as claimed): however a generation attempt ends, its entry is removed;
\* stated on the final state: an attempt that has ended has no entry.
C7_EntryRemovedWhenAttemptEnds ==
    \A r \in Runs :
        req[r].pc \in {"resolved", "rejected"} => ~HasCallback(abortCallbacks, r)

\* C8 (as claimed): a throwing step does not end the run: every run that has
\* returned without being superseded or stopped has invoked all six steps.
C8_ThrowingStepIsSkipped ==
    \A r \in Runs :
        (Ended(run[r]) /\ ~hasNewMsg(r) /\ status = "running") =>
            run[r].invoked = AllSteps

\* C9 (as claimed): a gateway failure never escapes unhandled, and the
\* buffer of an attempt that has ended is in a terminal state.
C9_GatewayFailureAbsorbed ==
    /\ unhandled = {}
    /\ \A r \in Runs :
          req[r].pc \in {"resolved", "rejected"} => buf[r].status \in Terminal

\* C10: the command list is wake, exit, voice switch, the registered commands
\* in registration order (the two of the constructor first), then the
\* fallback; the handler run for an utterance is the first of that order
\* whose predicate holds, wake only out of keep-alive and exit only in it.
C10_CommandPriority ==
    LET order(reg) == <<"wake", "exit", "switch">> \o reg \o <<"ai">>
        then == order(handled.reg)
        hits == {i \in 1..Len(then) : then[i] \in handled.matched}
    IN  /\ commands = order(regCommands)
        /\ SubSeq(regCommands, 1, 2) = <<"botProfile", "masterProfile">>
        /\ handled.cmd = IF hits = {} THEN "none" ELSE then[Min(hits)]
        /\ handled.cmd = "wake" => ~handled.ka
        /\ handled.cmd = "exit" => handled.ka

\* C10 witness: a command added after startup ran for a text that the
\* persona command before it does not match and the fallback after it does.
C10_Witness ==
    /\ handled.cmd = "onCall"
    /\ "ai" \in handled.matched
    /\ "botProfile" \notin handled.matched
    /\ Len(handled.reg) > Len(StartupCommands)
    /\ handled.pos = Len(handled.reg) + 3

\* The first symbols of the call keywords (each is one symbol long).
CallHeads == {kw[1] : kw \in callAIKeywords}

\* C11: the utterance dispatched last got one handler or none; it got none
\* exactly when no predicate of the list held of it, and then the session was
\* not in keep-alive mode and the text did not start with a call keyword; in
\* keep-alive mode it got a handler.
C11_OneHandlerOrNone ==
    /\ handled.cmd \in AllCommands \cup {"none"}
    /\ handled.cmd # "none" => handled.cmd \in handled.matched
    /\ handled.cmd = "none" <=> handled.matched = {}
    /\ handled.cmd = "none" => (~handled.ka /\ handled.head \notin CallHeads)
    /\ (handled.head # "" /\ handled.ka) => handled.cmd # "none"

\* C11 witness: in keep-alive mode a text that no other predicate matches
\* went to the fallback.
C11_Witness ==
    /\ handled.ka
    /\ handled.head = "S"
    /\ handled.matched = {"ai"}
    /\ handled.cmd = "ai"

\* C11 witness of the other case: out of keep-alive mode a text that starts
\* with no keyword got no handler.
C11_WitnessNone ==
    /\ ~handled.ka
    /\ handled.head = "S"
    /\ handled.cmd = "none"

\* The first symbols of the wake and exit keywords (each is one symbol long).
WakeHeads == {kw[1] : kw \in wakeUpKeywords}
ExitHeads == {kw[1] : kw \in exitKeywords}

\* C12 (as claimed): a text starting with a wake keyword, dispatched while
\* idle, fired wake and the session is active afterwards; a text starting
\* with an exit keyword, dispatched while active, fired exit and the session
\* is idle afterwards; wake fires only while idle and exit only while active.
\* (handled.ka is the session flag the dispatch saw, keepAlive the flag the
\* handler left.)
C12_KeepAliveTransitions ==
    /\ (handled.head \in WakeHeads /\ ~handled.ka)
          => (handled.cmd = "wake" /\ keepAlive)
    /\ (handled.head \in ExitHeads /\ handled.ka)
          => (handled.cmd = "exit" /\ ~keepAlive)
    /\ handled.cmd = "wake" => ~handled.ka
    /\ handled.cmd = "exit" => handled.ka

\* C12 (amended): as above, but the session becomes active on wake only
\* where streamResponse is enabled; where it is disabled wake fires and the
\* session stays idle.  No other handler changes the session flag.
C12_KeepAliveTransitionsIfStreaming ==
    /\ (handled.head \in WakeHeads /\ ~handled.ka)
          => (handled.cmd = "wake" /\ keepAlive = streamResponse)
    /\ (handled.head \in ExitHeads /\ handled.ka)
          => (handled.cmd = "exit" /\ ~keepAlive)
    /\ handled.cmd = "wake" => ~handled.ka
    /\ handled.cmd = "exit" => handled.ka
    /\ handled.cmd \notin {"wake", "exit"} => keepAlive = handled.ka

\* C12 witness: the exit command has just fired in an active session, which
\* the wake command had made active, and the session is idle again.
C12_Witness ==
    /\ streamResponse
    /\ handled.cmd = "exit"
    /\ handled.ka
    /\ handled.head = "X"
    /\ ~keepAlive

\* C13: a step never takes a buffer out of finished (cancel after finish is
\* a no-op) nor out of canceled (finish after cancel is a no-op); so it is on
\* the path of a request without answer, which calls finish and then cancel.
C13_FinishedAndCanceledAbsorbing ==
    [][\A r \in Runs :
          /\ buf[r].status = "finished" => buf'[r] = buf[r]
          /\ buf[r].status = "canceled" => buf'[r] = buf[r]
          /\ (req[r].pc # "resolved" /\ req'[r].pc = "resolved"
                /\ req'[r].answer = <<>>) =>
                buf'[r].status =
                    IF buf[r].status \in {"pending", "streaming"}
                    THEN "finished"
                    ELSE IF buf[r].status = "timedOut" THEN "canceled"
                    ELSE buf[r].status]_vars

\* C13 witness: a buffer was canceled by the playback while the gateway was
\* streaming; the request then ended without answer (finish, then cancel) and
\* the buffer is still canceled.
C13_Witness ==
    \E r \in Runs :
        /\ buf[r].status = "canceled"
        /\ buf[r].text # <<>>
        /\ req[r].pc = "resolved"
        /\ req[r].answer = <<>>
        /\ abortCount[<<"stream", r>>] = 1

\* C13 witness of the other order: a request without answer on a buffer that
\* was not terminal: finish made it finished and the cancel after it did
\* nothing.
C13_WitnessFinished ==
    \E r \in Runs :
        /\ buf[r].status = "finished"
        /\ buf[r].final = <<>>
        /\ req[r].pc = "resolved"
        /\ req[r].answer = <<>>

\* C14: a buffer becomes timedOut only from pending, with nothing
\* accumulated; once timedOut it never becomes streaming, and no chunk
\* delivered later changes its status or its text.
C14_TimedOutDropsChunks ==
    [][\A r \in Runs :
          /\ (buf'[r].status = "timedOut" /\ buf[r].status # "timedOut") =>
                (buf[r].status = "pending" /\ buf'[r].text = <<>>)
          /\ buf[r].status = "timedOut" =>
                /\ buf'[r].status \in Terminal
                /\ buf'[r].text = buf[r].text
                /\ req'[r].content # req[r].content => buf'[r] = buf[r]
          /\ (buf[r].status \in Terminal /\ buf[r].text = <<>>) =>
                (buf'[r].status \in Terminal /\ buf'[r].text = <<>>)]_vars

\* C14 witness: the gateway delivered a chunk after the timeout; the buffer
\* is still timedOut and empty.
C14_Witness ==
    \E r \in Runs :
        /\ buf[r].status = "timedOut"
        /\ buf[r].text = <<>>
        /\ req[r].pc = "iterating"
        /\ req[r].content # <<>>

\* The chunks 1..n in the order the gateway produces them.
Produced(n) == [i \in 1..n |-> i]

\* The round trip of one attempt: what was added to the buffer is what the
\* gateway produced, in that order, and the text given to finish is its
\* concatenation; the buffer is finished.
RoundTrip(r) ==
    /\ buf[r].status = "finished"
    /\ buf[r].text = Produced(Len(buf[r].text))
    /\ buf[r].final = buf[r].text
    /\ req[r].answer = buf[r].text
    /\ buf[r].text # <<>> =>
          [who |-> "bot", r |-> r, text |-> buf[r].text] \in history

\* C15 (as claimed): while an attempt whose buffer is neither canceled nor
\* timed out is streaming, the buffer holds the chunks produced so far, in
\* order; once such an attempt has ended, the buffer is finished and the
\* final text is the concatenation of the chunks added.
C15_ChunksConcatenated ==
    \A r \in Runs :
        buf[r].status \notin {"none", "canceled", "timedOut"} =>
            /\ req[r].pc = "iterating" =>
                  (buf[r].text = req[r].content
                     /\ req[r].content = Produced(Len(req[r].content)))
            /\ req[r].pc \in {"resolved", "rejected"} => RoundTrip(r)

\* C15, for the attempts whose stream ends without failure only.
C15_ChunksConcatenatedUnlessFailed ==
    \A r \in Runs :
        buf[r].status \notin {"none", "canceled", "timedOut"} =>
            /\ req[r].pc = "iterating" =>
                  (buf[r].text = req[r].content
                     /\ req[r].content = Produced(Len(req[r].content)))
            /\ req[r].pc = "resolved" => RoundTrip(r)

\* A full round trip: every chunk the gateway may produce was added and the
\* attempt ended.
C15_WitnessUnlessFailed ==
    \E r \in Runs :
        /\ req[r].pc = "resolved"
        /\ RoundTrip(r)
        /\ Len(buf[r].text) = MaxChunks

\* C16: while the session status is not "running", no run invokes a further
\* step, and no phrase of any step (thinking, done, error), no playback and
\* no wake-up is begun.
C16_StoppedRunStartsNoStep ==
    [][status # "running" =>
          \A r \in Runs :
              /\ run'[r].invoked = run[r].invoked
              /\ (effects'[r] \ effects[r]) \cap StepEffects = {}
              /\ (InStep(run[r]) /\ ~InStep(run'[r])) =>
                    run'[r].pc \in {"aborted", "threw"}]_vars

\* C16 witness: the device was stopped while a playback was in progress and
\* no newer utterance had arrived; the run returned at the check after the
\* playback, with neither the done nor the error phrase.
C16_Witness ==
    \E r \in Runs :
        /\ status = "stopped"
        /\ ~hasNewMsg(r)
        /\ run[r].pc = "aborted"
        /\ run[r].step = 3
        /\ run[r].invoked = <<1, 2, 3>>
        /\ effects[r] \cap {"done", "error", "wake"} = {}

\* What C17 says of one step of request r taken while its buffer is canceled
\* and the gateway is streaming: the buffer stays as it is; a chunk with text
\* that arrives while the entry is registered makes cancel(r) invoke the
\* abort function and remove the entry; when the call ends, the entry is
\* gone.
CanceledWhileStreamingStep(r) ==
    /\ buf'[r] = buf[r]
    /\ (req'[r].content # req[r].content /\ req'[r].pc = "iterating"
          /\ HasCallback(abortCallbacks, r)) =>
            /\ abortCount'[<<"stream", r>>] = abortCount[<<"stream", r>>] + 1
            /\ ~HasCallback(abortCallbacks', r)
    /\ req'[r].pc # "iterating" => ~HasCallback(abortCallbacks', r)

\* C17 (as claimed): once the buffer of a request is canceled while the
\* gateway is streaming, the buffer stays canceled with no chunk appended,
\* the network call is asked to stop, and the attempt does not crash: the
\* gateway call goes on or ends by resolving, with its entry removed.
C17_CanceledAttemptEndsCleanly ==
    [][\A r \in Runs :
          (buf[r].status = "canceled" /\ req[r].pc = "iterating") =>
              /\ CanceledWhileStreamingStep(r)
              /\ req'[r].pc \in {"iterating", "resolved"}
              /\ unhandled' = unhandled]_vars

\* C17, leaving open how the gateway call ends.
C17_CanceledBufferStaysCanceled ==
    [][\A r \in Runs :
          (buf[r].status = "canceled" /\ req[r].pc = "iterating") =>
              \/ CanceledWhileStreamingStep(r)
              \/ /\ req'[r].pc = "rejected"
                 /\ buf'[r] = buf[r]]_vars

\* A canceled attempt that ended as C17 says: cancel by id was invoked, the
\* call ended without answer, the entry is gone and the chunk that arrived
\* after the cancellation is not in the buffer.
C17_WitnessCleanEnd ==
    \E r \in Runs :
        /\ buf[r].status = "canceled"
        /\ Len(buf[r].text) = 1
        /\ req[r].pc = "resolved"
        /\ req[r].answer = <<>>
        /\ abortCount[<<"stream", r>>] = 1
        /\ ~HasCallback(abortCallbacks, r)
        /\ r \notin unhandled

\* C18: a run begins the wake-up only as its step 6, after all five steps
\* before it, at a check that found neither a newer utterance nor a stopped
\* device, and only while the session is in keep-alive mode; the wake-up
\* leaves the session flag as it is.
C18_WakeOnlyInKeepAlive ==
    [][\A r \in Runs :
          ("wake" \in effects'[r] /\ "wake" \notin effects[r]) =>
              /\ keepAlive /\ keepAlive'
              /\ ~hasNewMsg(r)
              /\ status = "running"
              /\ run[r].step < 6
              /\ run'[r].step = 6
              /\ run'[r].invoked = AllSteps]_vars

\* C18 witness: a run of a session in keep-alive mode has re-armed the wake
\* state after its playback and has ended.
C18_Witness ==
    \E r \in Runs :
        /\ keepAlive
        /\ run[r].pc = "done"
        /\ run[r].answer = "stream"
        /\ {"playback", "wake"} \subseteq effects[r]

\* C18 witness of the other case: a run of an idle session went through all
\* six steps and did not wake the device up.
C18_WitnessIdle ==
    \E r \in Runs :
        /\ ~keepAlive
        /\ run[r].pc = "done"
        /\ run[r].invoked = AllSteps
        /\ "wake" \notin effects[r]

\* C19: no run announces both done and error; a run that announced done
\* had recorded an answer and had begun its playback, whose outcome was
\* null; a run that announced error had the outcome "error"; a run whose
\* step 2 recorded no answer begins no playback and announces neither.
C19_DoneAndErrorExclusive ==
    \A r \in Runs :
        /\ ~({"done", "error"} \subseteq effects[r])
        /\ "done" \in effects[r] =>
              /\ run[r].answer # "unset"
              /\ "playback" \in effects[r]
              /\ run[r].res = "null"
        /\ "error" \in effects[r] =>
              /\ "playback" \in effects[r]
              /\ run[r].res = "error"
        /\ (run[r].step > 2 /\ run[r].answer = "unset") =>
              effects[r] \cap {"playback", "done", "error"} = {}

\* C19 witness: a run announced done after a playback with outcome null and
\* has ended.
C19_Witness ==
    \E r \in Runs :
        /\ run[r].pc = "done"
        /\ run[r].res = "null"
        /\ {"playback", "done"} \subseteq effects[r]

\* C19 witnesses of the other cases: a run announced error; a run without
\* answer went through all six steps and announced neither.
C19_WitnessError ==
    \E r \in Runs :
        /\ run[r].pc = "done"
        /\ run[r].res = "error"
        /\ {"playback", "error"} \subseteq effects[r]

C19_WitnessNoAnswer ==
    \E r \in Runs :
        /\ run[r].pc = "done"
        /\ run[r].answer = "unset"
        /\ run[r].invoked = AllSteps
        /\ effects[r] \cap {"playback", "done", "error"} = {}

\* The replies of request r that onFinished wrote to the history.
BotReplies(r) == {h \in history : h.who = "bot" /\ h.r = r}

\* C20 (as claimed): a request whose abort function was invoked (cancel by
\* its id while chatStream was iterating) never resolves with text, and no
\* reply of it is written to the history.
C20_CanceledRequestYieldsNoAnswer ==
    \A r \in Runs :
        abortCount[<<"stream", r>>] > 0 =>
            /\ req[r].answer = <<>>
            /\ BotReplies(r) = {}

\* C20, the part on onFinished alone: it is called when chatStream resolves
\* with text and at no other time, hence at most once per request.
C20_OnFinishedAtMostOnce ==
    [][\A r \in Runs :
          /\ BotReplies(r) # {} => BotReplies(r)' = BotReplies(r)
          /\ Cardinality(BotReplies(r)') <= 1
          /\ BotReplies(r)' # BotReplies(r) =>
                /\ req[r].pc = "iterating"
                /\ req'[r].pc = "resolved"
                /\ req'[r].answer # <<>>
                /\ BotReplies(r)' =
                      {[who |-> "bot", r |-> r, text |-> req'[r].answer]}]_vars

\* A request that was canceled by its id and ended as C20 says: without
\* answer and without reply in the history.
C20_WitnessNoAnswer ==
    \E r \in Runs :
        /\ abortCount[<<"stream", r>>] = 1
        /\ req[r].pc = "resolved"
        /\ req[r].answer = <<>>
        /\ BotReplies(r) = {}

====
